---- MODULE Spec2Model ----
(***************************************************************************)
(* The furniture pipeline of UGAHacks: the Flask service of app.py         *)
(* (/roomscan, /dream, /roomscan/model/<id>), the Flask service of         *)
(* server.py (/generate) and the parallel scraper of furniture_finder.py.  *)
(*                                                                         *)
(* Requests are handled by Flask worker threads.  A handler is cut into    *)
(* steps at its blocking calls and at its accesses to process-wide state   *)
(* (model_store, the TRELLIS pipeline, the SF3D model); between two steps  *)
(* any other request may run when the server is threaded.                  *)
(*                                                                         *)
(* Specifications: Spec (threaded server), SpecSerial (one request at a    *)
(* time), SpecMatch (the scraper page), SpecPlan (placement of one         *)
(* request's items), SpecMesh (mesh post-processing) and SpecScan (two     *)
(* concurrent uploads through get_room_dimensions_from_buffer).            *)
(***************************************************************************)
EXTENDS Integers, Sequences, FiniteSets, TLC

\* ------------------------------------------------------------------ bounds
NumReq == 2        \* request slots (worker threads) of the server
MaxRequests == 3   \* requests admitted in one behaviour
MaxScans == 1      \* /roomscan requests admitted in one behaviour
MaxSugg == 4       \* longest item list the suggestion service answers with
MaxLinks == 3      \* most product links the IKEA search page yields

\* ------------------------------------------------------- program constants
MaxBuilt == 3      \* suggestions[:3]
DefaultWidthCm == 50
DefaultDepthCm == 50
DefaultHeightCm == 80
ProductCm == 80     \* "width_cm": 80, "height_cm": 80, "depth_cm": 80
FloorMm == 10       \* max(bmax[0]-bmin[0], 0.01), in millimetres
MarginCm == 80      \* rw-0.8, in centimetres
MinSpanCm == 100    \* max(rw-0.8, 1.0), in centimetres
DIMENSION_TOLERANCE == 4
MAX_PARALLEL_BROWSERS == 5
MaxItems == 6      \* fetch_search_results(search_term, max_items=6)

Reqs == 1..NumReq

VARIABLES
    threaded,       \* app.run(): TRUE when requests are served concurrently
    req,            \* per request slot: the handler's locals and its position
    model_store,    \* app.py: model_store, id -> (bytes, mimetype)
    inPipelineRun,  \* requests inside pipeline.run(...) of app.py
    inRunImage,     \* requests inside model.run_image(...) of server.py
    admitted,       \* requests admitted so far
    scans,          \* /roomscan requests admitted so far
    putLog,         \* history: every (bytes, mimetype) ever put, by id
    fetchLog,       \* history: the responses of get_model, by id, in order
    published,      \* history: ids listed in a returned manifest
    \* furniture_finder.py, main() after "Fast Search" is pressed
    m_pc,           \* "off", "search", "scrape", "shown"
    target,         \* the Width / Depth / Height number inputs
    links,          \* fetch_search_results(...): the candidate links
    collected,      \* links whose future as_completed has yielded
    full_products,  \* the products appended so far, in completion order
    perfect,        \* filter_products(...)[0]
    possible,       \* filter_products(...)[1]
    failed,         \* history: links whose worker could not read the page
    \* app.py, one call of roomscan_to_furniture seen from its locals
    layout,         \* room_dims, suggestions, built, furniture_payloads
    \* app.py, the post-processing of run_pipeline_return_bytes
    postproc,       \* the trimesh object tm and bounds_m
    \* app.py, get_room_dimensions_from_buffer under concurrent uploads
    temp_scan,      \* the file "temp_scan.usdz": absent, or whose upload it holds
    stage           \* per request: what Usd.Stage.Open(temp_path) returned

matchVars == <<m_pc, target, links, collected, full_products, perfect, possible,
               failed>>

appVars == <<threaded, req, model_store, inPipelineRun, inRunImage, admitted,
             scans, putLog, fetchLog, published>>

sideVars == <<layout, postproc, temp_scan, stage>>

vars == <<appVars, matchVars, sideVars>>

\* ------------------------------------------------------------------ values
Min(a, b) == IF a < b THEN a ELSE b

EmptyFn == [x \in {} |-> x]

\* An identifier no uuid4() call of this process ever returned.
GhostId == <<0, 0>>

\* usdz_bytes / glb_bytes: the mesh generated for suggestion `item` of scan `scan`.
Bytes(scan, item, format) == [scan |-> scan, item |-> item, format |-> format]

NoData == Bytes(0, 0, "none")

\* A response not sent yet has status 0; total_items is -1 outside a manifest.
NoResp ==
    [status |-> 0, error |-> "", furniture |-> <<>>, total_items |-> 0 - 1,
     data |-> NoData, mimetype |-> ""]

\* jsonify({"error": msg}), code
ErrorResp(code, msg) == [NoResp EXCEPT !.status = code, !.error = msg]

\* An exception that leaves the view function: Flask answers 500.
Unhandled(exc) == [NoResp EXCEPT !.status = 500, !.error = "unhandled " \o exc]

ModelResp(data, mimetype) ==
    [NoResp EXCEPT !.status = 200, !.data = data, !.mimetype = mimetype]

\* ------------------------------------------------- suggestions (Gemini)
DefaultSuggestion ==
    [type |-> "dict", furniture_query |-> "IKEA Chair",
     target_width_cm |-> DefaultWidthCm, target_depth_cm |-> DefaultDepthCm,
     target_height_cm |-> DefaultHeightCm]

\* An item of the answer's "items" list: any JSON value.  Whether it is an
\* object is seen when the loop calls sugg.get on it.
GeminiItem ==
    [type |-> "json", furniture_query |-> "", target_width_cm |-> 0,
     target_depth_cm |-> 0, target_height_cm |-> 0]

ItemLists == {[k \in 1..n |-> GeminiItem] : n \in 0..MaxSugg}

\* What generate_content / response.text can be.
Answers ==
    {[kind |-> k, items |-> <<>>] :
        k \in {"raises", "non_json", "non_object", "no_items", "items_null"}}
    \cup {[kind |-> "items", items |-> l] : l \in ItemLists}

NoAnswer == [kind |-> "none", items |-> <<>>]

\* The value ask_gemini_for_furniture returns: a list, or None.
ListOf(items) == [is_list |-> TRUE, items |-> items]
NoneValue == [is_list |-> FALSE, items |-> <<>>]

ask_gemini_for_furniture(answer) ==
    CASE answer.kind \in {"raises", "non_json", "non_object"} ->
            \* generate_content raises, json.loads raises, or data.get raises
            \* AttributeError: the except clause returns the default list
            ListOf(<<DefaultSuggestion>>)
      [] answer.kind = "no_items" -> ListOf(<<>>)      \* data.get("items", [])
      [] answer.kind = "items_null" -> NoneValue       \* {"items": null}
      [] OTHER -> ListOf(answer.items)

\* ---------------------------------------------------------------- requests
IdleReq ==
    [kind |-> "none", pc |-> "idle", scan_no |-> 0, scan |-> "none",
     room_dims |-> "unset", answer |-> NoAnswer, suggestions |-> NoneValue,
     idx |-> 0, built |-> <<>>, log |-> <<>>, model_id |-> GhostId,
     resp |-> NoResp]

\* The services after start-up; t: whether app.run serves requests in threads.
InitApp(t) ==
    /\ threaded = t
    /\ req = [r \in Reqs |-> IdleReq]
    /\ model_store = EmptyFn
    /\ inPipelineRun = {}
    /\ inRunImage = {}
    /\ admitted = 0
    /\ scans = 0
    /\ putLog = EmptyFn
    /\ fetchLog = EmptyFn
    /\ published = {}

NoTarget == [w |-> 0, d |-> 0, h |-> 0]

\* The Streamlit page before "Fast Search" is pressed.
MatchOff ==
    /\ m_pc = "off"
    /\ target = NoTarget
    /\ links = <<>>
    /\ collected = {}
    /\ full_products = <<>>
    /\ perfect = <<>>
    /\ possible = <<>>
    /\ failed = {}

\* No roomscan_to_furniture call, mesh or upload is being followed.
NoLayout ==
    [pc |-> "off", room_dims |-> [w |-> 0, d |-> 0], suggestions |-> <<>>,
     idx |-> 0, built |-> <<>>, extents |-> <<>>, furniture_payloads |-> <<>>]

NoMesh == [centroid_x |-> 0, centroid_z |-> 0, min_y |-> 0, tilt |-> 0,
           base |-> 0, extent |-> <<0, 0, 0>>]

NoPostproc == [pc |-> "off", raw |-> NoMesh, tm |-> NoMesh, bounds_m |-> <<0, 0, 0>>]

NoFile == [exists |-> FALSE, scan_no |-> 0, scan |-> "none"]

NoStage == [opened |-> FALSE, scan_no |-> 0, scan |-> "none", dims |-> "unset"]

SideOff ==
    /\ layout = NoLayout
    /\ postproc = NoPostproc
    /\ temp_scan = NoFile
    /\ stage = [r \in Reqs |-> NoStage]

Init == InitApp(TRUE) /\ MatchOff /\ SideOff

\* A single-threaded server takes the next request when the last one returned.
\* A finished request leaves its thread (Recycle) before the next one is taken.
CanStart(r) ==
    /\ req[r].pc = "idle"
    /\ \A o \in Reqs : o < r => req[o].pc # "idle"   \* threads are alike
    /\ \A o \in Reqs : req[o].pc # "done"
    /\ admitted < MaxRequests
    /\ threaded \/ \A o \in Reqs \ {r} : req[o].pc = "idle"

Finish(r, resp) == [req EXCEPT ![r].pc = "done", ![r].resp = resp]

\* The response has been sent; the worker thread is free again.
Recycle(r) ==
    /\ req[r].pc = "done"
    /\ req' = [req EXCEPT ![r] = IdleReq]
    /\ UNCHANGED <<sideVars, matchVars, threaded, model_store, inPipelineRun, inRunImage, admitted,
                   scans, putLog, fetchLog, published>>

\* ------------------------------------------------------ /roomscan (app.py)
ScanFiles == {"unopenable", "open_raises", "no_geometry", "room"}

\* get_room_dimensions_from_buffer: None when Usd.Stage.Open gives no stage;
\* otherwise the size of the world bound, whatever the stage holds.
get_room_dimensions_from_buffer(scan) ==
    CASE scan = "unopenable" -> "None"
      [] scan = "open_raises" -> "raise"
      [] scan = "no_geometry" -> "empty_range_dims"   \* size of an empty range
      [] OTHER -> "dims"

\* `if 'file' not in request.files`, room_type
RoomscanStart(r, has_file, scan) ==
    /\ CanStart(r)
    /\ scans < MaxScans
    /\ admitted' = admitted + 1
    /\ scans' = scans + 1
    /\ req' = IF has_file
              THEN [req EXCEPT ![r].kind = "roomscan", ![r].pc = "extract",
                               ![r].scan_no = scans + 1, ![r].scan = scan]
              ELSE [req EXCEPT ![r].kind = "roomscan", ![r].pc = "done",
                               ![r].scan_no = scans + 1,
                               ![r].resp = ErrorResp(400, "No file")]
    /\ UNCHANGED <<sideVars, matchVars, threaded, model_store, inPipelineRun, inRunImage, putLog,
                   fetchLog, published>>

\* room_dims = get_room_dimensions_from_buffer(...); `if not room_dims`
ExtractDimensions(r) ==
    /\ req[r].pc = "extract"
    /\ LET dims == get_room_dimensions_from_buffer(req[r].scan) IN
       req' = CASE dims = "raise" ->
                     [req EXCEPT ![r].pc = "done",
                                 ![r].resp = Unhandled("Tf.ErrorException")]
                [] dims = "None" ->
                     [req EXCEPT ![r].pc = "done", ![r].room_dims = dims,
                                 ![r].resp = ErrorResp(400, "Invalid room scan file")]
                [] OTHER ->     \* the upload is not read again
                     [req EXCEPT ![r].pc = "suggest", ![r].room_dims = dims,
                                 ![r].scan = "none"]
    /\ UNCHANGED <<sideVars, matchVars, threaded, model_store, inPipelineRun, inRunImage, admitted,
                   scans, putLog, fetchLog, published>>

\* client.models.generate_content(...) ends: the service's answer is in.
GeminiAnswers(r, answer) ==
    /\ req[r].pc = "suggest"
    /\ req' = [req EXCEPT ![r].pc = "parse", ![r].answer = answer]
    /\ UNCHANGED <<sideVars, matchVars, threaded, model_store, inPipelineRun, inRunImage, admitted,
                   scans, putLog, fetchLog, published>>

\* suggestions = ask_gemini_for_furniture(room_dims, room_type, num_items=3)
AskGemini(r) ==
    /\ req[r].pc = "parse"
    /\ req' = [req EXCEPT ![r].pc = "loop", ![r].answer = NoAnswer,
                          ![r].suggestions = ask_gemini_for_furniture(req[r].answer)]
    /\ UNCHANGED <<sideVars, matchVars, threaded, model_store, inPipelineRun, inRunImage, admitted,
                   scans, putLog, fetchLog, published>>

\* The suggestions the loop visits: suggestions[:3].
NumToVisit(suggestions) == Min(MaxBuilt, Len(suggestions.items))

\* Outcomes of search, detail fetch and image download for one suggestion.
MatchOutcomes ==
    {"search_empty", "search_raises", "details_none", "details_no_image",
     "details_raises", "download_fails", "image_ok"}

\* The loop body also meets an item that is no dict (sugg.get raises).
LoopOutcomes == MatchOutcomes \cup {"not_a_dict"}

Raising == {"search_raises", "details_raises"}

\* One pass of the loop body up to the image download (lines 373-382).
\* suggestions[:3] needs a list; sugg.get needs a dict; fetch_search_results
\* and fetch_product_details have try/finally and no except.
MatchProduct(r, outcome) ==
    /\ req[r].pc = "loop"
    /\ req[r].kind = "roomscan"
    /\ ~req[r].suggestions.is_list \/ req[r].idx < NumToVisit(req[r].suggestions)
    /\ outcome = "not_a_dict" =>
          /\ req[r].suggestions.is_list
          /\ req[r].suggestions.items[req[r].idx + 1].type # "dict"
    /\ req' =
         IF ~req[r].suggestions.is_list
         THEN Finish(r, Unhandled("TypeError"))
         ELSE CASE outcome = "not_a_dict" ->
                     [req EXCEPT ![r].pc = "done",
                                 ![r].log = Append(@, "raised"),
                                 ![r].resp = Unhandled("AttributeError")]
                [] outcome \in Raising ->
                     [req EXCEPT ![r].pc = "done",
                                 ![r].log = Append(@, "raised"),
                                 ![r].resp = Unhandled("WebDriverException")]
                [] outcome = "image_ok" ->
                     [req EXCEPT ![r].pc = "pipeline"]
                [] OTHER ->    \* continue
                     [req EXCEPT ![r].idx = @ + 1,
                                 ![r].log = Append(@, "dropped")]
    /\ UNCHANGED <<sideVars, matchVars, threaded, model_store, inPipelineRun, inRunImage, admitted,
                   scans, putLog, fetchLog, published>>

\* run_pipeline_return_bytes up to the call of pipeline.run (lines 254-266).
PipelineBegin(r) ==
    /\ req[r].pc = "pipeline"
    /\ req' = [req EXCEPT ![r].pc = "in_run"]
    /\ inPipelineRun' = inPipelineRun \cup {r}
    /\ UNCHANGED <<sideVars, matchVars, threaded, model_store, inRunImage, admitted, scans, putLog,
                   fetchLog, published>>

USDZ == "model/vnd.usd+zip"
GLB == "model/gltf-binary"

\* The tuple appended to built (line 387).
BuiltItem(scan_no, item) ==
    [product |-> [link |-> <<scan_no, item>>],
     usdz_bytes |-> Bytes(scan_no, item, "usdz"), mimetype |-> USDZ]

\* pipeline.run returns or raises; the rest of run_pipeline_return_bytes
\* (to_glb, post-processing, export) returns or raises (lines 266-326).
\* /roomscan catches the exception and continues; /dream answers 500.
PipelineEnd(r, ok) ==
    /\ req[r].pc = "in_run"
    /\ inPipelineRun' = inPipelineRun \ {r}
    /\ req' =
         IF req[r].kind = "roomscan"
         THEN IF ok
              THEN [req EXCEPT ![r].pc = "loop", ![r].idx = @ + 1,
                       ![r].log = Append(@, "built"),
                       ![r].built = Append(@, BuiltItem(req[r].scan_no, req[r].idx + 1))]
              ELSE [req EXCEPT ![r].pc = "loop", ![r].idx = @ + 1,
                       ![r].log = Append(@, "dropped")]
         ELSE IF ok
              THEN Finish(r, ModelResp(Bytes(0, 0, "glb"), GLB))
              ELSE Finish(r, ErrorResp(500, "pipeline error"))
    /\ UNCHANGED <<sideVars, matchVars, threaded, model_store, inRunImage, admitted, scans, putLog,
                   fetchLog, published>>

\* (mutant of uuid4) one identifier drawn before the loop and reused in it
uuid4Reused(scan_no, k) == <<scan_no, 1>>

\* str(uuid.uuid4()): the k-th identifier drawn while assembling scan scan_no;
\* no two calls return the same value.
uuid4(scan_no, k) == <<scan_no, k>>

\* model_store[model_id] = (usdz_bytes, mimetype)
Put(store, model_id, entry) ==
    [x \in DOMAIN store \cup {model_id} |->
        IF x = model_id THEN entry ELSE store[x]]

StoreEntry(b) == [data |-> b.usdz_bytes, mimetype |-> b.mimetype]

\* The store after the first k..Len(built) passes of the loop of line 395.
RECURSIVE StoreBuilt(_, _, _, _)
StoreBuilt(store, scan_no, built, k) ==
    IF k > Len(built)
    THEN store
    ELSE StoreBuilt(Put(store, uuid4(scan_no, k), StoreEntry(built[k])),
                    scan_no, built, k + 1)

\* furniture_payloads (lines 412-420), without position and scale.
furniture_payloads(scan_no, built) ==
    [k \in 1..Len(built) |->
        [usdz_url |-> uuid4(scan_no, k), page_link |-> built[k].product.link]]

\* (mutant of NothingBuilt) the check of line 392 left out
NothingBuiltIgnored(built) == FALSE

\* `if not built`
NothingBuilt(built) == built = <<>>

ManifestResp(furniture) ==
    [NoResp EXCEPT !.status = 200, !.furniture = furniture,
                   !.total_items = Len(furniture)]

\* After the loop: the 500 of line 392, or the store writes and the manifest.
AssembleManifest(r) ==
    /\ req[r].pc = "loop"
    /\ req[r].kind = "roomscan"
    /\ req[r].suggestions.is_list
    /\ req[r].idx >= NumToVisit(req[r].suggestions)
    /\ IF NothingBuilt(req[r].built)
       THEN /\ req' = Finish(r, ErrorResp(500, "Could not generate furniture"))
            /\ UNCHANGED <<model_store, putLog, published>>
       ELSE LET furniture == furniture_payloads(req[r].scan_no, req[r].built) IN
            /\ model_store' = StoreBuilt(model_store, req[r].scan_no, req[r].built, 1)
            /\ putLog' = StoreBuilt(putLog, req[r].scan_no, req[r].built, 1)
            /\ published' = published \cup
                               {furniture[k].usdz_url : k \in 1..Len(furniture)}
            /\ req' = Finish(r, ManifestResp(furniture))
    /\ UNCHANGED <<sideVars, matchVars, threaded, inPipelineRun, inRunImage, admitted, scans, fetchLog>>

\* --------------------------------------------------------- /dream (app.py)
DreamStart(r, has_query, outcome) ==
    /\ CanStart(r)
    /\ admitted' = admitted + 1
    /\ req' =
         CASE ~has_query ->
                [req EXCEPT ![r].kind = "dream", ![r].pc = "done",
                            ![r].resp = ErrorResp(400, "No query provided")]
           [] outcome = "search_empty" ->
                [req EXCEPT ![r].kind = "dream", ![r].pc = "done",
                            ![r].resp = ErrorResp(404, "No results")]
           [] outcome \in Raising ->
                [req EXCEPT ![r].kind = "dream", ![r].pc = "done",
                            ![r].resp = Unhandled("WebDriverException")]
           [] outcome \in {"details_none", "details_no_image"} ->
                [req EXCEPT ![r].kind = "dream", ![r].pc = "done",
                            ![r].resp = ErrorResp(500, "Product found but no image")]
           [] outcome = "download_fails" ->
                [req EXCEPT ![r].kind = "dream", ![r].pc = "done",
                            ![r].resp = ErrorResp(500, "Image download failed")]
           [] OTHER ->
                [req EXCEPT ![r].kind = "dream", ![r].pc = "pipeline"]
    /\ UNCHANGED <<sideVars, matchVars, threaded, model_store, inPipelineRun, inRunImage, scans,
                   putLog, fetchLog, published>>

\* ---------------------------------------------------- /generate (server.py)
\* Up to the call of model.run_image: 400 without an image; an exception of
\* Image.open or remove_background is answered with 500.
GenerateStart(r, has_image, opens) ==
    /\ CanStart(r)
    /\ admitted' = admitted + 1
    /\ req' =
         CASE ~has_image ->
                [req EXCEPT ![r].kind = "generate", ![r].pc = "done",
                            ![r].resp = ErrorResp(400, "No image file provided")]
           [] ~opens ->
                [req EXCEPT ![r].kind = "generate", ![r].pc = "done",
                            ![r].resp = ErrorResp(500, "generate error")]
           [] OTHER ->
                [req EXCEPT ![r].kind = "generate", ![r].pc = "in_run_image"]
    /\ inRunImage' = IF has_image /\ opens THEN inRunImage \cup {r} ELSE inRunImage
    /\ UNCHANGED <<sideVars, matchVars, threaded, model_store, inPipelineRun, scans, putLog,
                   fetchLog, published>>

\* model.run_image returns or raises; export and send_file.
GenerateEnd(r, ok) ==
    /\ req[r].pc = "in_run_image"
    /\ inRunImage' = inRunImage \ {r}
    /\ req' = IF ok
              THEN Finish(r, ModelResp(Bytes(0, 0, "glb"), GLB))
              ELSE Finish(r, ErrorResp(500, "generate error"))
    /\ UNCHANGED <<sideVars, matchVars, threaded, model_store, inPipelineRun, admitted, scans,
                   putLog, fetchLog, published>>

\* ------------------------------------------ /roomscan/model/<id> (app.py)
\* A client asks for an identifier a manifest gave it, or for one that was
\* never drawn; it cannot guess a uuid4 that no response has shown yet.
Requestable == published \cup {GhostId}

LogFetch(log, model_id, resp) ==
    [x \in DOMAIN log \cup {model_id} |->
        IF x = model_id
        THEN Append(IF model_id \in DOMAIN log THEN log[model_id] ELSE <<>>, resp)
        ELSE log[x]]

NotFound == ErrorResp(404, "Model not found")

\* `if model_id not in model_store`
GetModelCheck(r, model_id) ==
    /\ CanStart(r)
    /\ model_id \in Requestable
    /\ admitted' = admitted + 1
    /\ IF model_id \notin DOMAIN model_store
       THEN /\ req' = [req EXCEPT ![r].kind = "get_model", ![r].pc = "done",
                                  ![r].model_id = model_id, ![r].resp = NotFound]
            /\ fetchLog' = LogFetch(fetchLog, model_id, NotFound)
       ELSE /\ req' = [req EXCEPT ![r].kind = "get_model", ![r].pc = "pop",
                                  ![r].model_id = model_id]
            /\ UNCHANGED fetchLog
    /\ UNCHANGED <<sideVars, matchVars, threaded, model_store, inPipelineRun, inRunImage, scans,
                   putLog, published>>

\* (mutant of Pop) model_store[model_id] read, the key left in place
PopKeepsKey(store, model_id) == store

\* A GET for any identifier a client can name.
GetModelRequest(r) == \E model_id \in Requestable : GetModelCheck(r, model_id)

\* dict.pop(key): the dict without the key.
Pop(store, model_id) == [x \in DOMAIN store \ {model_id} |-> store[x]]

\* data, mimetype = model_store.pop(model_id): KeyError when the key is gone.
GetModelPop(r) ==
    /\ req[r].pc = "pop"
    /\ LET model_id == req[r].model_id
           resp == IF model_id \in DOMAIN model_store
                   THEN ModelResp(model_store[model_id].data,
                                  model_store[model_id].mimetype)
                   ELSE Unhandled("KeyError")
       IN /\ req' = Finish(r, resp)
          /\ model_store' = Pop(model_store, model_id)
          /\ fetchLog' = LogFetch(fetchLog, model_id, resp)
    /\ UNCHANGED <<sideVars, matchVars, threaded, inPipelineRun, inRunImage, admitted, scans, putLog,
                   published>>

\* ------------------------------------------------------------ specification
Next ==
    \/ \E r \in Reqs, f \in BOOLEAN, s \in ScanFiles : RoomscanStart(r, f, s)
    \/ \E r \in Reqs : ExtractDimensions(r)
    \/ \E r \in Reqs, a \in Answers : GeminiAnswers(r, a)
    \/ \E r \in Reqs : AskGemini(r)
    \/ \E r \in Reqs, o \in LoopOutcomes : MatchProduct(r, o)
    \/ \E r \in Reqs : PipelineBegin(r)
    \/ \E r \in Reqs, ok \in BOOLEAN : PipelineEnd(r, ok)
    \/ \E r \in Reqs : AssembleManifest(r)
    \/ \E r \in Reqs, q \in BOOLEAN, o \in MatchOutcomes : DreamStart(r, q, o)
    \/ \E r \in Reqs, i \in BOOLEAN, o \in BOOLEAN : GenerateStart(r, i, o)
    \/ \E r \in Reqs, ok \in BOOLEAN : GenerateEnd(r, ok)
    \/ \E r \in Reqs : GetModelRequest(r)
    \/ \E r \in Reqs : GetModelPop(r)
    \/ \E r \in Reqs : Recycle(r)

Spec == Init /\ [][Next]_vars

\* The same server started single-threaded: one request at a time.
InitSerial == InitApp(FALSE) /\ MatchOff /\ SideOff

SpecSerial == InitSerial /\ [][Next]_vars

\* ------------------------------------------- furniture_finder.py: main()
\* Optional[float]: a measurement, or None.
Some(v) == [has |-> TRUE, v |-> v]
None == [has |-> FALSE, v |-> 0]

\* Python's `x or default`: None and 0.0 are both falsy.
OrElse(x, default) == IF x.has /\ x.v # 0 THEN x.v ELSE default

Min3(a, b, c) == Min(a, Min(b, c))
Max3(a, b, c) == 0 - Min3(0 - a, 0 - b, 0 - c)

\* What a product page can show: no "A x B x C" text, or a triplet in the
\* order the page prints it.
DimVals == {50, 54}
NoTriplet == <<>>
PageTexts == {NoTriplet} \cup (DimVals \X DimVals \X DimVals)

\* extract_dimensions_from_text: the first triplet, sorted ascending, is read
\* as depth, height, width.
extract_dimensions_from_text(text) ==
    IF text = NoTriplet
    THEN [height |-> None, width |-> None, depth |-> None]
    ELSE [depth |-> Some(Min3(text[1], text[2], text[3])),
          height |-> Some(text[1] + text[2] + text[3]
                          - Min3(text[1], text[2], text[3])
                          - Max3(text[1], text[2], text[3])),
          width |-> Some(Max3(text[1], text[2], text[3]))]

\* How one worker ends: no driver or an exception inside the try block
\* (None is returned), or the page source is read.
WorkerOutcomes ==
    {[ok |-> FALSE, why |-> w, text |-> NoTriplet] : w \in {"no_driver", "page_error"}}
    \cup {[ok |-> TRUE, why |-> "", text |-> t] : t \in PageTexts}

\* fetch_product_details(link_data) when the page was read.
ScrapedProduct(link, text) ==
    LET dims == extract_dimensions_from_text(text) IN
    [link |-> link, scraped_height |-> dims.height,
     scraped_width |-> dims.width, scraped_depth |-> dims.depth]

\* (mutant of fetch_product_details) try/finally without the except clause:
\* an error while the page is read leaves the worker
fetch_product_detailsNoExcept(link_data, outcome) ==
    IF outcome.ok
    THEN [raises |-> FALSE, p |-> Some(ScrapedProduct(link_data, outcome.text))]
    ELSE [raises |-> outcome.why = "page_error", p |-> None]

\* fetch_product_details: None without a driver; an exception while the page
\* is read or parsed is caught and product is still None; else the product.
fetch_product_details(link_data, outcome) ==
    IF outcome.ok
    THEN [raises |-> FALSE, p |-> Some(ScrapedProduct(link_data, outcome.text))]
    ELSE [raises |-> FALSE, p |-> None]

\* DimensionRange(...) of lines 235-239
Constraints(t) ==
    [height_min |-> t.h - DIMENSION_TOLERANCE, height_max |-> t.h + DIMENSION_TOLERANCE,
     width_min |-> t.w - DIMENSION_TOLERANCE, width_max |-> t.w + DIMENSION_TOLERANCE,
     depth_min |-> t.d - DIMENSION_TOLERANCE, depth_max |-> t.d + DIMENSION_TOLERANCE]

\* (mutant of Fit) `x or lo`: a missing measurement falls inside the range
FitMissingInside(lo, x, hi) == lo <= OrElse(x, lo) /\ OrElse(x, lo) <= hi

\* lo <= (x or -1) <= hi
Fit(lo, x, hi) == lo <= OrElse(x, 0 - 1) /\ OrElse(x, 0 - 1) <= hi

IsPerfect(p, c) ==
    /\ Fit(c.height_min, p.scraped_height, c.height_max)
    /\ Fit(c.width_min, p.scraped_width, c.width_max)
    /\ Fit(c.depth_min, p.scraped_depth, c.depth_max)

\* (mutant of filter_products) the two lists returned in the other order
filter_productsSwapped(products, c) ==
    LET fits(p) == IsPerfect(p, c)
        rest(p) == ~IsPerfect(p, c)
    IN [perfect |-> SelectSeq(products, rest), possible |-> SelectSeq(products, fits)]

\* filter_products: the two lists keep the order of `products`.
filter_products(products, c) ==
    LET fits(p) == IsPerfect(p, c)
        rest(p) == ~IsPerfect(p, c)
    IN [perfect |-> SelectSeq(products, fits), possible |-> SelectSeq(products, rest)]

\* The number inputs (10..200); the page is run once.
TargetVals == {46, 50, 54}
Targets == [w : TargetVals, d : TargetVals, h : TargetVals]

InitMatch ==
    /\ InitApp(FALSE)
    /\ SideOff
    /\ m_pc = "search"
    /\ target \in Targets
    /\ links = <<>>
    /\ collected = {}
    /\ full_products = <<>>
    /\ perfect = <<>>
    /\ possible = <<>>
    /\ failed = {}

\* links = fetch_search_results(search_term, max_items=6); `if not links`
SearchCatalog(n) ==
    /\ m_pc = "search"
    /\ n <= MaxItems
    /\ links' = [i \in 1..n |-> i]
    /\ m_pc' = IF n = 0 THEN "shown" ELSE "scrape"
    /\ UNCHANGED <<sideVars, appVars, target, collected, full_products, perfect,
                   possible, failed>>

\* The pool runs MAX_PARALLEL_BROWSERS workers, taking links in order: link i
\* is running or finished once fewer than that many earlier or equal links
\* are still unfinished ahead of it.
Started(i) ==
    Cardinality({j \in 1..(i - 1) : j \notin collected}) < MAX_PARALLEL_BROWSERS

\* One pass of `for future in as_completed(...)`: p = future.result(), which
\* raises again what the worker raised and so leaves main;
\* `if p: full_products.append(p)`
CollectResult(i, outcome) ==
    /\ m_pc = "scrape"
    /\ i \in DOMAIN links
    /\ i \notin collected
    /\ Started(i)
    /\ LET res == fetch_product_details(links[i], outcome) IN
       IF res.raises
       THEN /\ m_pc' = "aborted"
            /\ UNCHANGED <<collected, full_products, failed>>
       ELSE /\ collected' = collected \cup {i}
            /\ full_products' = IF res.p.has
                                THEN Append(full_products, res.p.v)
                                ELSE full_products
            /\ failed' = IF outcome.ok THEN failed ELSE failed \cup {i}
            /\ UNCHANGED m_pc
    /\ UNCHANGED <<sideVars, appVars, target, links, perfect, possible>>

\* perfect, possible = filter_products(full_products, constraints)
FilterProducts ==
    /\ m_pc = "scrape"
    /\ collected = DOMAIN links
    /\ LET res == filter_products(full_products, Constraints(target)) IN
       /\ perfect' = res.perfect
       /\ possible' = res.possible
    /\ m_pc' = "shown"
    /\ UNCHANGED <<sideVars, appVars, target, links, collected, full_products, failed>>

NextMatch ==
    \/ \E n \in 0..MaxLinks : SearchCatalog(n)
    \/ \E i \in 1..MaxLinks, o \in WorkerOutcomes : CollectResult(i, o)
    \/ FilterProducts

SpecMatch == InitMatch /\ [][NextMatch]_vars

\* ----------------------------------- app.py: placement (lines 372-420)
\* One call of roomscan_to_furniture followed through its locals: which
\* suggestions get a product and a mesh, and where and how large each built
\* item is placed.  Lengths: room_dims in cm, mesh extents and bounds_m in
\* mm, positions in twelfths of a cm (x_span/4 and x_span/3 stay whole).
Max(a, b) == IF a > b THEN a ELSE b

\* room_dims["w"], room_dims["d"]; the size of an empty range is negative.
RoomCm == {0 - 1000, 40, 50, 60, 100, 300}
RoomDims == [w : RoomCm, d : RoomCm]

\* A suggestion whose target_*_cm keys are absent (0 stands for absent).
UntargetedSuggestion ==
    [type |-> "dict", furniture_query |-> "IKEA Chair", target_width_cm |-> 0,
     target_depth_cm |-> 0, target_height_cm |-> 0]

\* suggestions[:3], not empty
PlanSuggestions ==
    UNION {[1..n -> {DefaultSuggestion, UntargetedSuggestion}] : n \in 1..MaxBuilt}

\* The extents (x, y, z) of the mesh trimesh loads, in mm.
MeshExtents == {<<0, 5, 10>>, <<9, 10, 11>>, <<400, 800, 1600>>}

\* The dict fetch_product_details returns for the link of suggestion i.
Product(i) ==
    [link |-> i, width_cm |-> ProductCm, height_cm |-> ProductCm,
     depth_cm |-> ProductCm]

\* bounds_m = (max(bmax[0]-bmin[0], 0.01), ...)
bounds_m(extent) ==
    <<Max(extent[1], FloorMm), Max(extent[2], FloorMm), Max(extent[3], FloorMm)>>

\* sx = (product["width_cm"]/100.0)/bw if bw>0 else 1.0, as the fraction
\* num/den of two lengths in mm.
Scale(size_cm, b) ==
    IF b > 0 THEN [num |-> size_cm * 10, den |-> b] ELSE [num |-> 1, den |-> 1]

\* (mutant of Span) rw-0.8 without the clamp
SpanUnclamped(room_cm) == room_cm - MarginCm

\* x_span, z_span = max(rw-0.8, 1.0), max(rd-0.8, 1.0), in cm
Span(room_cm) == Max(room_cm - MarginCm, MinSpanCm)

Origin == [x |-> 0, y |-> 0, z |-> 0]

\* positions for len(built) items, in twelfths of a cm.
positions(n, room_dims) ==
    LET x_span == Span(room_dims.w)
        z_span == Span(room_dims.d)
    IN IF n = 3
       THEN <<[x |-> 0, y |-> 0, z |-> 3 * z_span],
              [x |-> 0 - 4 * x_span, y |-> 0, z |-> 0 - 3 * z_span],
              [x |-> 4 * x_span, y |-> 0, z |-> 0 - 3 * z_span]>>
       ELSE IF n = 2
       THEN <<[x |-> 0 - 3 * x_span, y |-> 0, z |-> 3 * z_span],
              [x |-> 3 * x_span, y |-> 0, z |-> 3 * z_span]>>
       ELSE <<Origin>>

\* positions[idx] if idx < len(positions) else (0,0,0)
PositionAt(idx, ps) == IF idx <= Len(ps) THEN ps[idx] ELSE Origin

\* The position, scale and page_link of furniture_payloads (lines 399-420).
PlacementPayloads(room_dims, built) ==
    [idx \in 1..Len(built) |->
        LET product == built[idx].product
            b == built[idx].bounds_m
        IN [position |-> PositionAt(idx, positions(Len(built), room_dims)),
            scale |-> [x |-> Scale(product.width_cm, b[1]),
                       y |-> Scale(product.height_cm, b[2]),
                       z |-> Scale(product.depth_cm, b[3])],
            page_link |-> product.link]]

InitPlan ==
    /\ InitApp(FALSE)
    /\ MatchOff
    /\ postproc = NoPostproc
    /\ temp_scan = NoFile
    /\ stage = [r \in Reqs |-> NoStage]
    /\ layout \in {[NoLayout EXCEPT !.pc = "loop", !.room_dims = rd,
                                    !.suggestions = sg] :
                      rd \in RoomDims, sg \in PlanSuggestions}

\* One pass of the loop of line 373: `continue` without a product, an image
\* or a mesh; otherwise built.append((product, usdz_bytes, mimetype, bounds_m)).
PlanItem(has_mesh, extent) ==
    /\ layout.pc = "loop"
    /\ layout.idx < Len(layout.suggestions)
    /\ layout' =
         IF has_mesh
         THEN [layout EXCEPT
                 !.idx = @ + 1,
                 !.built = Append(@, [product |-> Product(layout.idx + 1),
                                      bounds_m |-> bounds_m(extent)]),
                 !.extents = Append(@, extent)]
         ELSE [layout EXCEPT !.idx = @ + 1]
    /\ UNCHANGED <<appVars, matchVars, postproc, temp_scan, stage>>

\* `if not built: return ... 500`; otherwise the payloads of the manifest.
PlanPlacement ==
    /\ layout.pc = "loop"
    /\ layout.idx = Len(layout.suggestions)
    /\ layout' =
         IF layout.built = <<>>
         THEN [layout EXCEPT !.pc = "error"]
         ELSE [layout EXCEPT
                 !.pc = "planned",
                 !.furniture_payloads = PlacementPayloads(layout.room_dims, layout.built)]
    /\ UNCHANGED <<appVars, matchVars, postproc, temp_scan, stage>>

NextPlan ==
    \/ \E m \in BOOLEAN, e \in MeshExtents : PlanItem(m, e)
    \/ PlanPlacement

SpecPlan == InitPlan /\ [][NextPlan]_vars

\* ------------------- app.py: mesh post-processing (lines 292-302)
\* The mesh trimesh loads from the raw GLB: where its centroid and lowest
\* point are, how far its base plane tilts from the horizontal (tenths of a
\* degree), how many vertices its base subset has, and its extents (mm).
Meshes ==
    [centroid_x : {0 - 5, 0, 5}, centroid_z : {0, 5}, min_y : {0 - 3, 0, 3},
     tilt : {0, 3, 5, 100, 200, 250}, base : {9, 10}, extent : MeshExtents]

\* tm.apply_translation([dx, dy, dz]): a rigid shift; orientation, vertex
\* count and extents stay as they are.
apply_translation(tm, dx, dy, dz) ==
    [tm EXCEPT !.centroid_x = @ + dx, !.centroid_z = @ + dz, !.min_y = @ + dy]

\* (mutant of CenterOnXZ) the shift followed by a levelling rotation of a
\* base of 10 or more vertices tilted between 0.5 and 20 degrees
CenterOnXZThenLevel(tm) ==
    [apply_translation(tm, 0 - tm.centroid_x, 0, 0 - tm.centroid_z)
        EXCEPT !.tilt = IF tm.base >= 10 /\ 5 < tm.tilt /\ tm.tilt < 200
                        THEN 0 ELSE @]

\* tm.apply_translation([-tm.centroid[0], 0, -tm.centroid[2]])
CenterOnXZ(tm) == apply_translation(tm, 0 - tm.centroid_x, 0, 0 - tm.centroid_z)

\* tm.apply_translation([0, -tm.bounds[0][1], 0])
PlaceOnFloor(tm) == apply_translation(tm, 0, 0 - tm.min_y, 0)

InitMesh ==
    /\ InitApp(FALSE)
    /\ MatchOff
    /\ layout = NoLayout
    /\ temp_scan = NoFile
    /\ stage = [r \in Reqs |-> NoStage]
    /\ postproc \in {[NoPostproc EXCEPT !.pc = "loaded", !.raw = m, !.tm = m] :
                        m \in Meshes}

\* 1. Center on X/Z axis
CenterMesh ==
    /\ postproc.pc = "loaded"
    /\ postproc' = [postproc EXCEPT !.pc = "centered", !.tm = CenterOnXZ(@)]
    /\ UNCHANGED <<appVars, matchVars, layout, temp_scan, stage>>

\* 2. Place on floor (Y=0)
GroundMesh ==
    /\ postproc.pc = "centered"
    /\ postproc' = [postproc EXCEPT !.pc = "grounded", !.tm = PlaceOnFloor(@)]
    /\ UNCHANGED <<appVars, matchVars, layout, temp_scan, stage>>

\* bmin, bmax = tm.bounds[0], tm.bounds[1]; bounds_m = ...
MeasureBounds ==
    /\ postproc.pc = "grounded"
    /\ postproc' = [postproc EXCEPT !.pc = "done",
                                    !.bounds_m = bounds_m(postproc.tm.extent)]
    /\ UNCHANGED <<appVars, matchVars, layout, temp_scan, stage>>

NextMesh == CenterMesh \/ GroundMesh \/ MeasureBounds

SpecMesh == InitMesh /\ [][NextMesh]_vars

\* ------- app.py: get_room_dimensions_from_buffer, step by step (105-119)
\* Every /roomscan request saves its upload under the one name
\* "temp_scan.usdz", opens that path, and removes it in the finally clause.
\* Between two of these steps another request thread may run.

\* /roomscan with a file: the handler enters get_room_dimensions_from_buffer.
UploadScan(r, scan) ==
    /\ CanStart(r)
    /\ threaded
    /\ scans < NumReq
    /\ admitted' = admitted + 1
    /\ scans' = scans + 1
    /\ req' = [req EXCEPT ![r].kind = "roomscan", ![r].pc = "save",
                          ![r].scan_no = scans + 1, ![r].scan = scan]
    /\ stage' = [stage EXCEPT ![r] = NoStage]
    /\ UNCHANGED <<matchVars, layout, postproc, temp_scan, threaded, model_store,
                   inPipelineRun, inRunImage, putLog, fetchLog, published>>

\* file_storage.save(temp_path): whatever the path held is overwritten.
SaveUpload(r) ==
    /\ req[r].pc = "save"
    /\ temp_scan' = [exists |-> TRUE, scan_no |-> req[r].scan_no, scan |-> req[r].scan]
    /\ req' = [req EXCEPT ![r].pc = "open"]
    /\ UNCHANGED <<matchVars, layout, postproc, stage, threaded, model_store,
                   inPipelineRun, inRunImage, admitted, scans, putLog, fetchLog,
                   published>>

\* stage = Usd.Stage.Open(temp_path) and the lines up to `return dims`, on
\* what the path holds now.  A path that is gone cannot be opened: Open
\* returns no stage or raises.
OpenStage(r, raises) ==
    /\ req[r].pc = "open"
    /\ temp_scan.exists => ~raises
    /\ stage' =
         [stage EXCEPT ![r] =
            IF temp_scan.exists
            THEN [opened |-> temp_scan.scan \in {"no_geometry", "room"},
                  scan_no |-> temp_scan.scan_no, scan |-> temp_scan.scan,
                  dims |-> get_room_dimensions_from_buffer(temp_scan.scan)]
            ELSE [NoStage EXCEPT !.dims = IF raises THEN "raise" ELSE "None"]]
    /\ req' = [req EXCEPT ![r].pc = "finally"]
    /\ UNCHANGED <<matchVars, layout, postproc, temp_scan, threaded, model_store,
                   inPipelineRun, inRunImage, admitted, scans, putLog, fetchLog,
                   published>>

\* The function returns (or raises) and `if not room_dims` is evaluated.
ScanReturn(r) ==
    CASE stage[r].dims = "raise" ->
            [req EXCEPT ![r].pc = "done", ![r].resp = Unhandled("Tf.ErrorException")]
      [] stage[r].dims = "None" ->
            [req EXCEPT ![r].pc = "done", ![r].room_dims = "None",
                        ![r].resp = ErrorResp(400, "Invalid room scan file")]
      [] OTHER ->
            [req EXCEPT ![r].pc = "suggest", ![r].room_dims = stage[r].dims]

\* finally: `if os.path.exists(temp_path)`
TempExists(r) ==
    /\ req[r].pc = "finally"
    /\ req' = IF temp_scan.exists
              THEN [req EXCEPT ![r].pc = "remove"]
              ELSE ScanReturn(r)
    /\ UNCHANGED <<matchVars, layout, postproc, temp_scan, stage, threaded,
                   model_store, inPipelineRun, inRunImage, admitted, scans, putLog,
                   fetchLog, published>>

\* finally: os.remove(temp_path), FileNotFoundError when the path is gone.
RemoveTemp(r) ==
    /\ req[r].pc = "remove"
    /\ temp_scan' = NoFile
    /\ req' = IF temp_scan.exists
              THEN ScanReturn(r)
              ELSE [req EXCEPT ![r].pc = "done",
                               ![r].resp = Unhandled("FileNotFoundError")]
    /\ UNCHANGED <<matchVars, layout, postproc, stage, threaded, model_store,
                   inPipelineRun, inRunImage, admitted, scans, putLog, fetchLog,
                   published>>

NextScan ==
    \/ \E r \in Reqs, s \in ScanFiles : UploadScan(r, s)
    \/ \E r \in Reqs : SaveUpload(r)
    \/ \E r \in Reqs, x \in BOOLEAN : OpenStage(r, x)
    \/ \E r \in Reqs : TempExists(r)
    \/ \E r \in Reqs : RemoveTemp(r)
    \/ \E r \in Reqs : Recycle(r)

SpecScan == Init /\ [][NextScan]_vars

\* ======================================================================
\* Properties
\* ======================================================================
Range(seq) == {seq[k] : k \in DOMAIN seq}

StoredResp(model_id) ==
    ModelResp(putLog[model_id].data, putLog[model_id].mimetype)

\* ---------------------------------------------------------------- C1
\* The answers given so far for each identifier, in order.
C1Responses ==
    \A id \in DOMAIN fetchLog :
        IF id \in DOMAIN putLog
        THEN /\ fetchLog[id][1] = StoredResp(id)
             /\ \A k \in 2..Len(fetchLog[id]) : fetchLog[id][k] = NotFound
        ELSE \A k \in DOMAIN fetchLog[id] : fetchLog[id][k] = NotFound

\* A fetch of a never-put identifier answers 404 with model_store unchanged.
C1MissLeavesStore ==
    \A r \in Reqs :
        (req[r].pc = "idle" /\ req'[r].kind = "get_model"
            /\ req'[r].model_id \notin DOMAIN putLog)
        => (model_store' = model_store /\ req'[r].resp = NotFound)

\* C1 (SpecSerial): with requests served one after another, the first fetch
\* of an identifier that was put into model_store answers 200 with exactly
\* the bytes and content type put under it, and every later fetch of it
\* answers 404; a fetch of an identifier that was never put answers 404 and
\* leaves model_store as it was.
C1_TakeOnce == []C1Responses /\ [][C1MissLeavesStore]_vars

\* An identifier that was put has been fetched twice: payload, then 404.
C1_Witness ==
    \E id \in DOMAIN fetchLog :
        /\ id \in DOMAIN putLog
        /\ Len(fetchLog[id]) >= 2
        /\ fetchLog[id][1].status = 200
        /\ fetchLog[id][2].status = 404

\* ---------------------------------------------------------------- C2
\* C2 (Spec): with concurrent fetches of one stored identifier, exactly one
\* fetch receives the payload and every other one receives the 404
\* response; none ends in an unhandled error.
C2_ConcurrentTakeOnce ==
    \A id \in DOMAIN fetchLog \cap DOMAIN putLog :
        /\ Cardinality({k \in DOMAIN fetchLog[id] : fetchLog[id][k].status = 200}) = 1
        /\ \A k \in DOMAIN fetchLog[id] :
              fetchLog[id][k] \in {StoredResp(id), NotFound}

\* ---------------------------------------------------------------- C3
\* C3 (Spec): at most one call of the generative model (pipeline.run in
\* app.py, model.run_image in server.py) is in progress at any time.
C3_GenerationExclusive ==
    /\ Cardinality(inPipelineRun) <= 1
    /\ Cardinality(inRunImage) <= 1

\* ---------------------------------------------------------------- C4
RoomscanDone(r) == req[r].kind = "roomscan" /\ req[r].pc = "done"

\* The request measured a room and holds a suggestion list.
Extracted(r) == req[r].room_dims = "dims" /\ req[r].suggestions.is_list

\* The request went on after get_room_dimensions_from_buffer.
PastExtraction(r) == req[r].room_dims \in {"dims", "empty_range_dims"}

\* The suggestions every stage of which succeeded, in order.
BuiltLinks(r) ==
    LET ok(i) == req[r].log[i] = "built"
        idxs == SelectSeq([i \in DOMAIN req[r].log |-> i], ok)
    IN [k \in DOMAIN idxs |-> <<req[r].scan_no, idxs[k]>>]

\* C4: once extraction succeeded, whatever the stages of each suggestion
\* do (find nothing, fail, raise, malformed entry), every suggestion of
\* suggestions[:3] is processed, none stops the request, the manifest lists
\* exactly the suggestions all of whose stages succeeded, total_items is
\* their number, and a request with a success answers with a manifest.
C4_FailureIsolation ==
    \A r \in Reqs :
        (RoomscanDone(r) /\ Extracted(r)) =>
            /\ Len(req[r].log) = NumToVisit(req[r].suggestions)
            /\ "raised" \notin Range(req[r].log)
            /\ req[r].resp.status = 200 =>
                  /\ [k \in DOMAIN req[r].resp.furniture |->
                         req[r].resp.furniture[k].page_link] = BuiltLinks(r)
                  /\ req[r].resp.total_items = Len(BuiltLinks(r))
            /\ "built" \in Range(req[r].log) => req[r].resp.status = 200

\* ---------------------------------------------------------------- C5
\* C5 as claimed: when extraction succeeded and no suggestion succeeded (all
\* dropped, or none suggested), the request answers with a manifest whose
\* furniture list is empty and whose total_items is 0.
C5_ZeroSuccessManifest ==
    \A r \in Reqs :
        (RoomscanDone(r) /\ Extracted(r) /\ req[r].built = <<>>
            /\ Len(req[r].log) = NumToVisit(req[r].suggestions)
            /\ "raised" \notin Range(req[r].log))
        => (req[r].resp.status = 200 /\ req[r].resp.furniture = <<>>
            /\ req[r].resp.total_items = 0)

\* C5 as amended: when extraction succeeded and nothing was built, the
\* request answers 500, never a manifest; a manifest always lists at least
\* one item, one per built suggestion.
C5_ZeroSuccessIsError ==
    \A r \in Reqs :
        RoomscanDone(r) =>
            /\ (PastExtraction(r) /\ req[r].built = <<>>) =>
                  (req[r].resp.status = 500 /\ req[r].resp.furniture = <<>>)
            /\ req[r].resp.status = 200 =>
                  (req[r].resp.total_items >= 1
                   /\ req[r].resp.total_items = Len(req[r].built))

\* Two suggestions were processed, both dropped without an exception, and
\* the request ended with the 500 of line 392.
C5_Witness ==
    \E r \in Reqs :
        /\ RoomscanDone(r) /\ Extracted(r)
        /\ Len(req[r].log) >= 2
        /\ Range(req[r].log) = {"dropped"}
        /\ req[r].resp = ErrorResp(500, "Could not generate furniture")

\* ---------------------------------------------------------------- C6
ManifestIds(r) ==
    {req[r].resp.furniture[k].usdz_url : k \in DOMAIN req[r].resp.furniture}

\* C6: when a manifest is returned, its asset references are pairwise
\* distinct identifiers, each present in model_store with the bytes and
\* content type generated for the item of that entry, and model_store
\* holds no identifier drawn by this request that the manifest leaves out.
C6_ManifestResolves ==
    \A r \in Reqs :
        (RoomscanDone(r) /\ req[r].resp.status = 200) =>
            LET f == req[r].resp.furniture IN
            /\ \A j, k \in DOMAIN f : j # k => f[j].usdz_url # f[k].usdz_url
            /\ \A k \in DOMAIN f :
                  /\ f[k].usdz_url \in DOMAIN model_store
                  /\ model_store[f[k].usdz_url] =
                        [data |-> Bytes(f[k].page_link[1], f[k].page_link[2], "usdz"),
                         mimetype |-> USDZ]
            /\ \A id \in DOMAIN model_store :
                  id[1] = req[r].scan_no => id \in ManifestIds(r)

\* A manifest of two items was returned, for the first and the third
\* suggestion (the second was dropped).
C6_Witness ==
    \E r \in Reqs :
        /\ RoomscanDone(r) /\ req[r].resp.status = 200
        /\ Len(req[r].resp.furniture) = 2
        /\ req[r].resp.furniture[1].page_link[2] = 1
        /\ req[r].resp.furniture[2].page_link[2] = 3
        /\ ManifestIds(r) \subseteq DOMAIN model_store

\* ---------------------------------------------------------------- C7
\* The extraction step of a scan that cannot be opened or holds no geometry.
C7Step ==
    \A r \in Reqs :
        (req[r].pc = "extract"
            /\ req[r].scan \in {"unopenable", "open_raises", "no_geometry"})
        => /\ req'[r].pc \in {"extract", "done"}
           /\ req'[r].pc = "done" => req'[r].resp.status >= 400

\* C7: a scan that cannot be opened or holds no geometry ends the request
\* at the extraction step with an error response; no later stage runs.
C7_ExtractionFatal == [][C7Step]_vars

\* ---------------------------------------------------------------- C8
MalformedAnswers == {"raises", "non_json", "non_object", "no_items", "items_null"}

\* The suggestion step of a request that measured a room, on such an answer.
C8Step ==
    \A r \in Reqs :
        (req[r].pc = "parse" /\ req'[r].pc # "parse"
            /\ req[r].room_dims = "dims"
            /\ req[r].answer.kind \in MalformedAnswers)
        => /\ req'[r].pc = "loop"
           /\ req'[r].suggestions = ListOf(<<DefaultSuggestion>>)

\* C8: when the suggestion service raises or answers with non-JSON text,
\* JSON that is no object or JSON without a usable item list, the step
\* yields exactly the default suggestion and the request goes on to the
\* per-item loop.
C8_SuggestionFallback == [][C8Step]_vars

\* ---------------------------------------------------------------- C9
Measured(p) ==
    p.scraped_width.has /\ p.scraped_depth.has /\ p.scraped_height.has

WithinTolerance(x, t) ==
    x.has /\ t - DIMENSION_TOLERANCE <= x.v /\ x.v <= t + DIMENSION_TOLERANCE

AllWithinTolerance(p) ==
    /\ WithinTolerance(p.scraped_width, target.w)
    /\ WithinTolerance(p.scraped_depth, target.d)
    /\ WithinTolerance(p.scraped_height, target.h)

\* The products of the candidates whose page was read; a candidate whose
\* worker returned None has no product and no measurement.
Products == Range(full_products)

Shown == m_pc = "shown" /\ links # <<>>

\* C9 as claimed: for a non-empty candidate list the matcher reports no
\* match iff every candidate lacks a measured dimension; otherwise what it
\* returns has all three measurements.
C9_NotFoundIffUnmeasured ==
    Shown =>
        /\ perfect = <<>> <=> \A p \in Products : ~Measured(p)
        /\ \A p \in Range(perfect) : Measured(p)

\* C9 as amended: there is no perfect fit iff every candidate lacks a
\* measured dimension or has one farther than DIMENSION_TOLERANCE from the
\* target; every perfect fit has all three measurements.
C9_NotFoundIffNoneWithinTolerance ==
    Shown =>
        /\ perfect = <<>> <=> \A p \in Products : ~AllWithinTolerance(p)
        /\ \A p \in Range(perfect) : Measured(p)

\* Two candidates, one of them fully measured, and no perfect fit.
C9_Witness ==
    /\ Shown
    /\ Len(links) >= 2
    /\ perfect = <<>>
    /\ \E p \in Products : Measured(p)
    /\ \E p \in Products : ~Measured(p)

\* --------------------------------------------------------------- C10
Exact(p) ==
    /\ p.scraped_width = Some(target.w)
    /\ p.scraped_depth = Some(target.d)
    /\ p.scraped_height = Some(target.h)

\* C10 as claimed: a candidate whose measurements equal the target, among
\* candidates that all differ from it, is the match selected ahead of the
\* others, in every completion order and at every list position.
C10_ExactSelectedFirst ==
    Shown =>
        \A p \in Products :
            (Exact(p) /\ \A q \in Products \ {p} : ~Exact(q))
            => (perfect # <<>> /\ perfect[1] = p)

\* C10 as amended: such a candidate is always among the perfect fits, in
\* every completion order and at every list position; it comes after any
\* candidate within tolerance that completed earlier, and it is the only
\* perfect fit when every other candidate is outside tolerance.
C10_ExactAmongPerfect ==
    Shown =>
        \A p \in Products :
            Exact(p) =>
                /\ p \in Range(perfect)
                /\ (\A q \in Products \ {p} : ~AllWithinTolerance(q))
                      => perfect = <<p>>
                /\ \A j, k \in DOMAIN full_products :
                      (j < k /\ full_products[k] = p
                          /\ AllWithinTolerance(full_products[j]))
                      => \E a, b \in DOMAIN perfect :
                            a < b /\ perfect[a] = full_products[j] /\ perfect[b] = p

\* The exact candidate is link 2, completed after another candidate that is
\* within tolerance, and is shown second.
C10_Witness ==
    /\ Shown
    /\ \E p \in Products :
          /\ Exact(p) /\ p.link = 2
          /\ Len(perfect) >= 2 /\ perfect[2] = p /\ ~Exact(perfect[1])

\* --------------------------------------------------------------- C11
PlanEnded == layout.pc \in {"planned", "error"}

\* The scan held geometry: both footprint sides were measured.
RoomMeasured == layout.room_dims.w > 0 /\ layout.room_dims.d > 0

\* Suggestion i got a product and a mesh.
Matched(i) == \E k \in DOMAIN layout.built : layout.built[k].product.link = i

\* Product size when there is one, else the suggestion's target size, else
\* 80 cm (0.8 m).
ThreeTier(has_product, product_cm, suggested_cm) ==
    IF has_product THEN product_cm
    ELSE IF suggested_cm # 0 THEN suggested_cm ELSE 80

\* C11 (SpecPlan): every suggestion has a placement entry, and on every axis
\* the entry's scale is computed from the matched product's size when there
\* is one, else from the suggestion's own target size, else from 0.8 m.
C11_ThreeTierTarget ==
    (PlanEnded /\ RoomMeasured) =>
        \A i \in DOMAIN layout.suggestions :
            \E k \in DOMAIN layout.furniture_payloads :
                LET e == layout.furniture_payloads[k]
                    sg == layout.suggestions[i]
                IN /\ e.page_link = i
                   /\ e.scale.x.num =
                        10 * ThreeTier(Matched(i), ProductCm, sg.target_width_cm)
                   /\ e.scale.y.num =
                        10 * ThreeTier(Matched(i), ProductCm, sg.target_height_cm)
                   /\ e.scale.z.num =
                        10 * ThreeTier(Matched(i), ProductCm, sg.target_depth_cm)

\* --------------------------------------------------------------- C12
Axes == 1..3

AxisScale(e, a) == IF a = 1 THEN e.scale.x ELSE IF a = 2 THEN e.scale.y ELSE e.scale.z

\* C12 (SpecPlan): on every axis of every placed item the scale is the
\* target size over the mesh extent when the extent is at or above the
\* floor (0.01 m), and exactly 1.0 when the extent is below the floor, zero
\* included; its denominator is never zero.
C12_ScaleEpsilonFloor ==
    (layout.pc = "planned" /\ RoomMeasured) =>
        \A k \in DOMAIN layout.furniture_payloads :
            \A a \in Axes :
                LET sc == AxisScale(layout.furniture_payloads[k], a)
                    extent == layout.extents[k][a]
                IN /\ sc.den # 0
                   /\ extent >= FloorMm => sc.num * extent = (ProductCm * 10) * sc.den
                   /\ extent < FloorMm => sc.num = sc.den

\* --------------------------------------------------------------- C13
Abs(n) == IF n < 0 THEN 0 - n ELSE n

\* The offset from the room midpoint is at most half the width on x and half
\* the depth on z (offsets in twelfths of a cm, room sides in cm).
Inside(p, room) == Abs(p.x) <= 6 * room.w /\ Abs(p.z) <= 6 * room.d

AllInside ==
    \A k \in DOMAIN layout.furniture_payloads :
        Inside(layout.furniture_payloads[k].position, layout.room_dims)

PairwiseDistinct ==
    \A j, k \in DOMAIN layout.furniture_payloads :
        j # k => layout.furniture_payloads[j].position
                    # layout.furniture_payloads[k].position

\* The room is large enough for the layout of n items with the least span.
RoomHolds(n, room) ==
    IF n = 1 THEN room.w >= 0 /\ room.d >= 0
    ELSE IF n = 2 THEN 2 * room.w >= MinSpanCm /\ 2 * room.d >= MinSpanCm
    ELSE 3 * room.w >= 2 * MinSpanCm /\ 2 * room.d >= MinSpanCm

\* C13 as claimed: for every measured room and every batch of 1, 2 or 3
\* built items the positions are pairwise distinct and each lies inside the
\* room footprint.
C13_PlacementInside ==
    (layout.pc = "planned" /\ RoomMeasured) => (PairwiseDistinct /\ AllInside)

\* C13 as amended: the positions are always pairwise distinct; they all lie
\* inside the footprint exactly when the room is at least half the least
\* span (0.5 m) wide and deep for 2 items, at least two thirds of it wide
\* and half of it deep for 3 items, and has no negative side for 1 item.
C13_PlacementInsideIff ==
    layout.pc = "planned" =>
        /\ PairwiseDistinct
        /\ AllInside <=> RoomHolds(Len(layout.furniture_payloads), layout.room_dims)

\* Three items placed in a room 1 m wide (narrower than 1.8 m, the span is
\* clamped), all inside the footprint.
C13_Witness ==
    /\ layout.pc = "planned"
    /\ Len(layout.furniture_payloads) = 3
    /\ layout.room_dims.w = 100
    /\ Span(layout.room_dims.w) = MinSpanCm
    /\ AllInside
    /\ PairwiseDistinct

\* --------------------------------------------------------------- C14
\* The base subset has 10 or more vertices and the tilt lies strictly
\* between 0.5 and 20 degrees.
InBand(m) == m.base >= 10 /\ 5 < m.tilt /\ m.tilt < 200

\* C14 as claimed: post-processing rotates the mesh level (tilt 0) if and
\* only if the base has at least 10 vertices and the tilt lies strictly
\* inside the band; otherwise the output orientation is the input one.
C14_LevelsInsideBand ==
    postproc.pc = "done" =>
        postproc.tm.tilt = IF InBand(postproc.raw) THEN 0 ELSE postproc.raw.tilt

\* C14 as amended: post-processing never rotates: for every tilt and every
\* base size the output orientation is the input one; the mesh is only
\* shifted, to centroid x = z = 0 and lowest point y = 0.
C14_OrientationKept ==
    postproc.pc = "done" =>
        /\ postproc.tm.tilt = postproc.raw.tilt
        /\ postproc.tm.extent = postproc.raw.extent
        /\ postproc.tm.centroid_x = 0 /\ postproc.tm.centroid_z = 0
        /\ postproc.tm.min_y = 0

\* A mesh tilted by 10 degrees on a base of 10 vertices, off centre and
\* below the floor, went through post-processing and is still tilted.
C14_Witness ==
    /\ postproc.pc = "done"
    /\ InBand(postproc.raw)
    /\ postproc.raw.tilt = 100
    /\ postproc.raw.centroid_x # 0 /\ postproc.raw.min_y # 0
    /\ postproc.tm.tilt = 100

\* --------------------------------------------------------------- C15
\* The products appended for link i.
ProductsOf(i) == {k \in DOMAIN full_products : full_products[k].link = links[i]}

\* C15 (SpecMatch): a worker that cannot create a browser or fails while
\* reading or parsing its page leaves its candidate without a product and
\* without a measurement; every other candidate is still collected exactly
\* once; the run is never aborted and ends with every candidate collected.
C15_WorkerFailureDegrades ==
    /\ m_pc # "aborted"
    /\ failed \subseteq collected
    /\ collected \subseteq DOMAIN links
    /\ \A i \in collected :
          Cardinality(ProductsOf(i)) = IF i \in failed THEN 0 ELSE 1
    /\ \A k \in DOMAIN full_products :
          \E i \in collected : full_products[k].link = links[i]
    /\ Shown => collected = DOMAIN links

\* Three candidates: the worker of the first one collected failed, and the
\* two others were collected after it, each with its product.
C15_Witness ==
    /\ Shown
    /\ Len(links) = 3
    /\ Cardinality(failed) = 1
    /\ Len(full_products) = 2
    /\ \E i \in failed : \E k \in DOMAIN full_products : full_products[k].link > links[i]

\* --------------------------------------------------------------- C16
\* Request r is past Usd.Stage.Open.
PastOpen(r) ==
    req[r].kind = "roomscan" /\ req[r].pc \in {"finally", "remove", "suggest", "done"}

\* C16 (SpecScan): with two /roomscan requests at once, each request opens
\* the file it uploaded itself and gets the dimensions of that file, and
\* none fails because the other one removed the temporary file.
C16_OwnFileRead ==
    \A r \in Reqs :
        PastOpen(r) =>
            /\ stage[r].scan_no = req[r].scan_no
            /\ stage[r].dims = get_room_dimensions_from_buffer(req[r].scan)
            /\ req[r].resp # Unhandled("FileNotFoundError")

====
